---- MODULE Spec2Model ----
(***************************************************************************)
(* AntiTruffa: the heuristic scorers (score_url, score_text, analyze_text,  *)
(* analyze_image_bytes) and the report log (append_report, load_reports).  *)
(*                                                                         *)
(* Python str values are TLA+ strings; characters are strings of length 1. *)
(* The letter a-grave of THREAT_PHRASES is written "^" (ASCII only here).  *)
(***************************************************************************)
EXTENDS Integers, Sequences, FiniteSets, TLC

VARIABLES pc, op, arg, ret, file, now, written

vars == <<pc, op, arg, ret, file, now, written>>

(***************************************************************************)
(* Python built-ins used by the source                                     *)
(***************************************************************************)

\* Python's None, and an optional str argument: <<>> or <<s>>.
None == <<>>

Some(s) == <<s>>

\* (x or ""): None and "" both give "".
OrEmpty(x) == IF x = None THEN "" ELSE x[1]

Char(s, i) == SubSeq(s, i, i)

\* s[i:] with i counted from 1.
From(s, i) == SubSeq(s, i, Len(s))

UpperLetters == "ABCDEFGHIJKLMNOPQRSTUVWXYZ"

LowerLetters == "abcdefghijklmnopqrstuvwxyz"

DigitChars == "0123456789"

IndexIn(c, alphabet) ==
    IF \E i \in 1..Len(alphabet) : Char(alphabet, i) = c
    THEN CHOOSE i \in 1..Len(alphabet) : Char(alphabet, i) = c
    ELSE 0

isdigit(c) == IndexIn(c, DigitChars) # 0

isalpha(c) == IndexIn(c, UpperLetters) # 0 \/ IndexIn(c, LowerLetters) # 0

lower_char(c) ==
    LET i == IndexIn(c, UpperLetters)
    IN  IF i = 0 THEN c ELSE Char(LowerLetters, i)

RECURSIVE lower(_)
lower(s) ==
    IF Len(s) = 0 THEN ""
    ELSE IF Len(s) = 1 THEN lower_char(s)
    ELSE LET h == Len(s) \div 2
         IN  lower(SubSeq(s, 1, h)) \o lower(SubSeq(s, h + 1, Len(s)))

isspace(c) == c \in {" ", "\t", "\n"}

\* s.strip(): from the first to the last character that is not whitespace.
strip(s) ==
    LET keep == {i \in 1..Len(s) : ~isspace(Char(s, i))}
    IN  IF keep = {} THEN ""
        ELSE SubSeq(s, CHOOSE i \in keep : \A j \in keep : i <= j,
                       CHOOSE i \in keep : \A j \in keep : i >= j)

startswith(s, p) == Len(s) >= Len(p) /\ SubSeq(s, 1, Len(p)) = p

\* sub in s
contains(sub, s) ==
    \E i \in 0..(Len(s) - Len(sub)) : SubSeq(s, i + 1, i + Len(sub)) = sub

\* Position (from 1) of the first character of s at or after position lo that is in
\* cs, 0 when there is none: s.find(c, lo).
find_from(s, cs, lo) ==
    LET hits == {i \in lo..Len(s) : Char(s, i) \in cs}
    IN  IF hits = {} THEN 0 ELSE CHOOSE i \in hits : \A j \in hits : i <= j

find(s, cs) == find_from(s, cs, 1)

\* s.rfind(c)
rfind(s, cs) ==
    LET hits == {i \in 1..Len(s) : Char(s, i) \in cs}
    IN  IF hits = {} THEN 0 ELSE CHOOSE i \in hits : \A j \in hits : i >= j

count(s, c) == Cardinality({i \in 1..Len(s) : Char(s, i) = c})

RECURSIVE split(_, _)
split(s, c) ==
    LET i == find(s, {c})
    IN  IF i = 0 THEN <<s>> ELSE <<SubSeq(s, 1, i - 1)>> \o split(From(s, i + 1), c)

\* s.partition(c) and s.rpartition(c): <<before, separator, after>>.
partition(s, c) ==
    LET i == find(s, {c})
    IN  IF i = 0 THEN <<s, "", "">> ELSE <<SubSeq(s, 1, i - 1), c, From(s, i + 1)>>

rpartition(s, c) ==
    LET i == rfind(s, {c})
    IN  IF i = 0 THEN <<"", "", s>> ELSE <<SubSeq(s, 1, i - 1), c, From(s, i + 1)>>

RECURSIVE join(_, _)
join(sep, xs) ==
    IF xs = <<>> THEN ""
    ELSE IF Len(xs) = 1 THEN xs[1]
    ELSE xs[1] \o sep \o join(sep, Tail(xs))

Min(a, b) == IF a <= b THEN a ELSE b

RECURSIVE SumWeights(_)
SumWeights(signals) ==
    IF signals = <<>> THEN 0 ELSE signals[1].weight + SumWeights(Tail(signals))

Codes(signals) == {signals[i].code : i \in 1..Len(signals)}

\* [k for k in words if k in text]
Hits(words, text) == SelectSeq(words, LAMBDA k : contains(k, text))

(***************************************************************************)
(* urllib.parse.urlparse, as score_url uses it                             *)
(***************************************************************************)

SchemeChars == UpperLetters \o LowerLetters \o DigitChars \o "+-."

\* The schemes whose last path segment may carry parameters.
uses_params ==
    {"", "ftp", "hdl", "prospero", "http", "imap", "https", "shttp", "rtsp", "rtspu",
     "sip", "sips", "mms", "sftp", "tel"}

\* _splitparams: the parameters of the last path segment.
splitparams(url) ==
    LET i == IF contains("/", url) THEN find_from(url, {";"}, rfind(url, {"/"}))
             ELSE find(url, {";"})
    IN  IF i = 0 THEN <<url, "">> ELSE <<SubSeq(url, 1, i - 1), From(url, i + 1)>>

\* urlparse(raw): raised stands for the ValueError of an unbalanced bracket in the
\* authority ("Invalid IPv6 URL"). The bracketed hosts of the inputs below are
\* valid IPv6 literals, which every version of the library accepts.
urlparse(raw) ==
    LET colon == find(raw, {":"})
        hasScheme ==
            /\ colon > 1
            /\ isalpha(Char(raw, 1))
            /\ \A i \in 1..(colon - 1) : IndexIn(Char(raw, i), SchemeChars) # 0
        scheme == IF hasScheme THEN lower(SubSeq(raw, 1, colon - 1)) ELSE ""
        r1 == IF hasScheme THEN From(raw, colon + 1) ELSE raw
        hasNetloc == startswith(r1, "//")
        delim0 == find_from(r1, {"/", "?", "#"}, 3)
        delim == IF delim0 = 0 THEN Len(r1) + 1 ELSE delim0
        netloc == IF hasNetloc THEN SubSeq(r1, 3, delim - 1) ELSE ""
        r2 == IF hasNetloc THEN From(r1, delim) ELSE r1
        raised ==
            /\ hasNetloc
            /\ \/ contains("[", netloc) /\ ~contains("]", netloc)
               \/ contains("]", netloc) /\ ~contains("[", netloc)
        f == partition(r2, "#")
        q == partition(f[1], "?")
        pp == IF scheme \in uses_params /\ contains(";", q[1])
              THEN splitparams(q[1]) ELSE <<q[1], "">>
    IN  [raised |-> raised, scheme |-> scheme, netloc |-> netloc, path |-> pp[1],
         params |-> pp[2], query |-> q[3], fragment |-> f[3]]

\* ParseResult.hostname, with the caller's (p.hostname or "").
hostname(netloc) ==
    LET hostinfo == rpartition(netloc, "@")[3]
        br == partition(hostinfo, "[")
        h == IF br[2] # "" THEN partition(br[3], "]")[1] ELSE partition(hostinfo, ":")[1]
    IN  lower(h)

(***************************************************************************)
(* main.py: the URL check                                                  *)
(***************************************************************************)

SHORTENERS ==
    {"bit.ly", "tinyurl.com", "t.co", "goo.gl", "ow.ly", "is.gd", "cutt.ly",
     "rebrand.ly", "buff.ly", "rb.gy", "shorturl.at"}

SUSPICIOUS_KEYWORDS ==
    <<"login", "verify", "verification", "account", "secure", "security", "update",
      "password", "reset", "confirm", "billing", "invoice", "payment", "wallet",
      "bank", "support", "helpdesk", "session", "locked", "unlock">>

SUSPICIOUS_TLDS ==
    {"zip", "mov", "top", "xyz", "click", "fit", "quest", "country", "tk", "gq"}

BRAND_BAIT ==
    <<"paypal", "poste", "postepay", "amazon", "apple", "microsoft", "google",
      "facebook", "instagram", "whatsapp", "inps", "agenziaentrate", "netflix",
      "booking", "banca", "intesa", "unicredit", "tim", "vodafone">>

\* sorted(set(xs)) for xs drawn from a list of distinct words: the hits in
\* alphabetical order.
SortedKeywords ==
    <<"account", "bank", "billing", "confirm", "helpdesk", "invoice", "locked",
      "login", "password", "payment", "reset", "secure", "security", "session",
      "support", "unlock", "update", "verification", "verify", "wallet">>

SortedBait ==
    <<"agenziaentrate", "amazon", "apple", "banca", "booking", "facebook", "google",
      "inps", "instagram", "intesa", "microsoft", "netflix", "paypal", "poste",
      "postepay", "tim", "unicredit", "vodafone", "whatsapp">>

\* IPV4_RE = ^\d{1,3}(\.\d{1,3}){3}$
IPV4_RE(host) ==
    LET parts == split(host, ".")
    IN  /\ Len(parts) = 4
        /\ \A i \in 1..4 :
              /\ Len(parts[i]) \in 1..3
              /\ \A j \in 1..Len(parts[i]) : isdigit(Char(parts[i], j))

\* raw before the scheme is added: what is echoed back.
url_display_m(url) ==
    LET raw == strip(OrEmpty(url))
    IN  IF raw # "" /\ ~(startswith(lower(raw), "http://") \/ startswith(lower(raw), "https://"))
        THEN "https://" \o raw ELSE raw

url_display(url) == strip(OrEmpty(url))

url_normalize(raw) ==
    IF raw # "" /\ ~(startswith(lower(raw), "http://") \/ startswith(lower(raw), "https://"))
    THEN "https://" \o raw
    ELSE raw

url_verdict_m(score) ==
    IF score > 45 THEN "Sembra phishing"
    ELSE IF score >= 20 THEN "Sospetto"
    ELSE "Probabilmente ok (ma verifica comunque)"

url_verdict(score) ==
    IF score >= 45 THEN "Sembra phishing"
    ELSE IF score >= 20 THEN "Sospetto"
    ELSE "Probabilmente ok (ma verifica comunque)"

\* The rules of score_url, in order: <<fired, weight, reason>>.
url_rules(p, raw, host) ==
    LET path == lower(p.path)
        query == lower(p.query)
        parts == split(host, ".")
        text == host \o "/" \o path \o "?" \o query
        kw_hits == Hits(SUSPICIOUS_KEYWORDS, text)
        tld == parts[Len(parts)]
        bait_hits == Hits(BRAND_BAIT, host)
    IN  << <<p.scheme # "https", 15, "Non usa HTTPS (http invece di https).">>,
           <<contains("@", p.netloc), 25, "Contiene '@' nel dominio (mascheramento tipico).">>,
           <<IPV4_RE(host), 30, "Il dominio e' un indirizzo IP (molto sospetto).">>,
           <<startswith(host, "xn--") \/ contains("xn--", host), 20,
             "Dominio in punycode (possibile dominio 'falso').">>,
           <<Len(parts) >= 4, 15,
             "Troppi sottodomini (spesso usati per imitare siti famosi).">>,
           <<count(host, "-") >= 2, 10, "Molti trattini nel dominio (pattern da phishing).">>,
           <<Len(raw) > 90, 10, "URL molto lungo (puo' nascondere la destinazione).">>,
           <<host \in SHORTENERS, 20, "E' un link accorciato (non vedi dove porta davvero).">>,
           <<kw_hits # <<>>, Min(25, 5 * Len(kw_hits)),
             "Parole tipiche da phishing nel link: "
               \o join(", ", Hits(SortedKeywords, text)) \o ".">>,
           <<tld \in SUSPICIOUS_TLDS, 15, "Estensione sospetta: ." \o tld>>,
           <<bait_hits # <<>>, 15,
             "Nel dominio compare un nome 'esca' ("
               \o join(", ", Hits(SortedBait, host)) \o "): occhio ai falsi.">> >>

RECURSIVE FiredScore(_)
FiredScore(rules) ==
    IF rules = <<>> THEN 0
    ELSE (IF rules[1][1] THEN rules[1][2] ELSE 0) + FiredScore(Tail(rules))

RECURSIVE FiredReasons(_)
FiredReasons(rules) ==
    IF rules = <<>> THEN <<>>
    ELSE (IF rules[1][1] THEN <<rules[1][3]>> ELSE <<>>) \o FiredReasons(Tail(rules))

score_url(url) ==
    LET display_url == url_display(url)
        raw == url_normalize(strip(OrEmpty(url)))
        p == urlparse(raw)
        host == hostname(p.netloc)
        rules == url_rules(p, raw, host)
        score == FiredScore(rules)
        reasons == FiredReasons(rules)
    IN  IF p.raised
        THEN [raised |-> FALSE, score |-> 100, verdict |-> "Sembra phishing",
              reasons |-> <<"URL non valido o non interpretabile.">>,
              display_url |-> display_url]
        ELSE IF host = ""
        THEN [raised |-> FALSE, score |-> 100, verdict |-> "Sembra phishing",
              reasons |-> <<"Manca il dominio nell'URL.">>,
              display_url |-> display_url]
        ELSE [raised |-> FALSE, score |-> score, verdict |-> url_verdict(score),
              reasons |->
                  IF reasons = <<>>
                  THEN <<"Nessun segnale forte rilevato, ma controlla sempre dominio e mittente.">>
                  ELSE reasons,
              display_url |-> display_url]

(***************************************************************************)
(* main.py: the SMS / message check                                        *)
(***************************************************************************)

TEXT_RED_FLAGS ==
    <<"urgente", "entro 24 ore", "entro 12 ore", "subito", "immediato", "adesso",
      "account bloccato", "account sospeso", "verifica il tuo account",
      "conferma i tuoi dati", "password", "codice otp", "codice di verifica", "pin",
      "iban", "carta", "cvv", "pagamento non riuscito", "rimborso", "fattura",
      "sanzione", "multa", "agenzia delle entrate", "inps", "poste", "postepay",
      "paypal", "amazon", "supporto", "assistenza">>

SortedRedFlags ==
    <<"account bloccato", "account sospeso", "adesso", "agenzia delle entrate",
      "amazon", "assistenza", "carta", "codice di verifica", "codice otp",
      "conferma i tuoi dati", "cvv", "entro 12 ore", "entro 24 ore", "fattura", "iban",
      "immediato", "inps", "multa", "pagamento non riuscito", "password", "paypal",
      "pin", "poste", "postepay", "rimborso", "sanzione", "subito", "supporto",
      "urgente", "verifica il tuo account">>

THREAT_PHRASES ==
    <<"verr^ chiuso", "verr^ sospeso", "ultimatum", "pena", "sanzione",
      "azione legale", "se non", "evita il blocco", "ultimo avviso">>

SensitiveWords == <<"password", "otp", "codice", "pin", "cvv", "iban">>

\* str(n) for n >= 0.
RECURSIVE str(_)
str(n) ==
    IF n < 10 THEN Char(DigitChars, n + 1)
    ELSE str(n \div 10) \o Char(DigitChars, (n % 10) + 1)

\* LINK_RE = (https?://\S+|www\.\S+), ignoring case, can match at position i of s.
LinkAt(s, i) ==
    LET l == lower(SubSeq(s, i, Min(Len(s), i + 7)))
        nonspace(j) == j <= Len(s) /\ ~isspace(Char(s, j))
    IN  \/ startswith(l, "http://") /\ nonspace(i + 7)
        \/ l = "https://" /\ nonspace(i + 8)
        \/ startswith(l, "www.") /\ nonspace(i + 4)

\* The matches of LINK_RE.findall(s), left to right. A match runs to the next
\* whitespace, so it starts at the first place of its run of non-blanks where the
\* pattern can match.
RECURSIVE InOrder(_, _)
InOrder(s, starts) ==
    IF starts = {} THEN <<>>
    ELSE LET i == CHOOSE a \in starts : \A b \in starts : a <= b
             sp == find_from(s, {" ", "\t", "\n"}, i)
             e == IF sp = 0 THEN Len(s) ELSE sp - 1
         IN  <<SubSeq(s, i, e)>> \o InOrder(s, starts \ {i})

findall_links(s) ==
    LET cand == {i \in 1..Len(s) : LinkAt(s, i)}
        starts == {i \in cand :
                      \A j \in cand : j < i => \E k \in j..i : isspace(Char(s, k))}
    IN  InOrder(s, starts)

text_msg_m(message) == OrEmpty(message)

text_msg(message) == strip(OrEmpty(message))

text_verdict(score) ==
    IF score >= 60 THEN "Molto sospetto"
    ELSE IF score >= 30 THEN "Sospetto"
    ELSE "Probabilmente ok (ma attenzione)"

text_rules(msg, links) ==
    LET low == lower(msg)
        hits == Hits(TEXT_RED_FLAGS, low)
        threats == Hits(THREAT_PHRASES, low)
    IN  << <<links # <<>>, 15,
             "Contiene " \o str(Len(links))
               \o " link nel messaggio (spesso usati per portarti fuori).">>,
           <<hits # <<>>, Min(45, 5 * Len(hits)),
             "Parole/temi tipici da truffa: " \o join(", ", Hits(SortedRedFlags, low)) \o ".">>,
           <<threats # <<>>, Min(25, 10 * Len(threats)),
             "Tono minaccioso/ultimatum per farti agire di fretta.">>,
           <<Hits(SensitiveWords, low) # <<>>, 20,
             "Richiesta possibile di dati sensibili (password/codici/IBAN).">> >>

\* evaluated: how many rules were evaluated before returning.
score_text(message) ==
    LET msg == text_msg(message)
        links == findall_links(msg)
        rules == text_rules(msg, links)
        score == FiredScore(rules)
        reasons == FiredReasons(rules)
    IN  IF msg = ""
        THEN [raised |-> FALSE, score |-> 0, verdict |-> "Inserisci un testo",
              reasons |-> <<"Non hai incollato nulla.">>, links |-> <<>>, evaluated |-> 0]
        ELSE [raised |-> FALSE, score |-> Min(score, 100), verdict |-> text_verdict(score),
              reasons |->
                  IF reasons = <<>>
                  THEN <<"Nessun segnale forte rilevato, ma controlla sempre mittente e contesto.">>
                  ELSE reasons,
              links |-> links, evaluated |-> Len(rules)]

(***************************************************************************)
(* analyze_text.py                                                         *)
(***************************************************************************)

Signal(code, weight, evidence) == [code |-> code, weight |-> weight, evidence |-> evidence]

\* re.search of an alternation of literals.
SearchAny(words, text) == \E w \in words : contains(w, text)

DangerousCombo_m(codes) == "SHORTENER" \in codes \/ "CREDENTIALS_REQUEST" \in codes

DangerousCombo(codes) == "SHORTENER" \in codes /\ "CREDENTIALS_REQUEST" \in codes

PhishingPattern(codes) == "LINK_PRESENT" \in codes /\ "ACCOUNT_THREAT" \in codes

text_level(score) ==
    IF score < 30 THEN "basso" ELSE IF score < 70 THEN "medio" ELSE "alto"

text_category(codes) ==
    IF "CREDENTIALS_REQUEST" \in codes THEN "phishing_link"
    ELSE IF "ACCOUNT_THREAT" \in codes THEN "account_threat"
    ELSE "sospetto_generico"

text_advice(level) ==
    IF level = "alto"
    THEN <<"Non cliccare il link.", "Non inserire password, OTP o dati carta.",
           "Controlla solo dall'app ufficiale.", "Segnala come spam.">>
    ELSE IF level = "medio"
    THEN <<"Verifica sempre dal sito ufficiale.", "Non fidarti di richieste urgenti.">>
    ELSE <<"Resta prudente.", "Non condividere dati personali.">>

analyze_text(text) ==
    LET text_lower == lower(OrEmpty(text))
        base ==
            (IF SearchAny({"http://", "https://"}, text_lower)
             THEN <<Signal("LINK_PRESENT", 10, "link presente")>> ELSE <<>>)
            \o (IF SearchAny({"bit.ly", "tinyurl", "t.co"}, text_lower)
                THEN <<Signal("SHORTENER", 20, "shortener rilevato")>> ELSE <<>>)
            \o (IF SearchAny({"password", "credenziali", "otp", "codice", "carta", "iban",
                              "dati"}, text_lower)
                THEN <<Signal("CREDENTIALS_REQUEST", 20, "richiesta dati sensibili")>>
                ELSE <<>>)
            \o (IF SearchAny({"bloccato", "sospeso", "urgente", "verifica", "aggiorna",
                              "conferma"}, text_lower)
                THEN <<Signal("ACCOUNT_THREAT", 20, "minaccia o urgenza")>> ELSE <<>>)
        codes == Codes(base)
        signals ==
            base
            \o (IF DangerousCombo(codes)
                THEN <<Signal("DANGEROUS_COMBO", 25, "shortener + richiesta dati")>>
                ELSE <<>>)
            \o (IF PhishingPattern(codes)
                THEN <<Signal("PHISHING_PATTERN", 20, "link + minaccia account")>>
                ELSE <<>>)
        score == Min(SumWeights(signals), 100)
        level == text_level(score)
    IN  [raised |-> FALSE, score |-> score, level |-> level, signals |-> signals,
         category |-> text_category(codes), advice |-> text_advice(level)]

(***************************************************************************)
(* analyze_image.py                                                        *)
(*                                                                         *)
(* An image is what Pillow makes of the bytes: whether they decode, the    *)
(* size, what getexif() gives (it raises, or a mapping of exif_len tags)   *)
(* and the variance of the grayscale image, in tenths.                     *)
(***************************************************************************)

fingerprint_bytes(data) == <<"sha256", data>>

exif_present(img) == ~img.exif_raises /\ img.exif_len > 0

image_low_res_m(w, h) == w < 500 /\ h < 500

image_low_res(w, h) == w < 500 \/ h < 500

image_score_m(signals) ==
    IF SumWeights(signals) >= 100 THEN SumWeights(signals) ELSE 100

image_score(signals) == Min(100, SumWeights(signals))

image_level(score) ==
    IF score < 20 THEN "basso" ELSE IF score < 50 THEN "medio" ELSE "alto"

image_category(level) ==
    IF level \in {"medio", "alto"} THEN "deepfake_suspected" ELSE "image_check"

image_notes ==
    <<"Questa analisi non e' un verdetto: sono indizi tecnici.",
      "Consiglio: cerca la fonte originale (reverse image search) e verifica il contesto.",
      "Compressioni (WhatsApp/social) possono alterare i metadati e la qualita'.">>

analyze_image_bytes(img) ==
    LET signals ==
            (IF ~exif_present(img) THEN <<Signal("NO_EXIF", 10, "Nessun EXIF")>> ELSE <<>>)
            \o (IF image_low_res(img.w, img.h)
                THEN <<Signal("LOW_RES", 8, str(img.w) \o "x" \o str(img.h))>> ELSE <<>>)
            \o (IF img.var10 < 150 * 10
                THEN <<Signal("LOW_DETAIL", 10,
                              "var=" \o str(img.var10 \div 10) \o "." \o str(img.var10 % 10))>>
                ELSE <<>>)
        score == image_score(signals)
        level == image_level(score)
    IN  IF ~img.decodable
        THEN [raised |-> TRUE]
        ELSE [raised |-> FALSE, score |-> score, level |-> level, signals |-> signals,
              notes |-> image_notes, exif_present |-> exif_present(img),
              fp |-> fingerprint_bytes(img), category |-> image_category(level)]

(***************************************************************************)
(* storage.py: the report log, one JSON record per line                    *)
(***************************************************************************)

\* The clock reads at most MaxClock; the log holds at most MaxFile lines; a read
\* asks for at most MaxLimit lines.
MaxClock == 1

MaxFile == 3

MaxLimit == 3

Fingerprints == {"a1b2", "c3d4"}

\* The reports callers hand to append_report.
Reports == [fingerprint : Fingerprints, risk_score : {28}]

\* json.dumps(report, ensure_ascii=False) of a report with its ts.
json_dumps(r) ==
    "{\"fingerprint\": \"" \o r.fingerprint \o "\", \"risk_score\": " \o str(r.risk_score)
        \o ", \"ts\": " \o str(r.ts) \o "}"

Stamped == [fingerprint : Fingerprints, risk_score : {28}, ts : 0..MaxClock]

\* json.loads(line) on the lines the log can hold: the record whose text the line
\* is, or a failure (ok = FALSE) for any other text.
json_loads(line) ==
    LET rs == {r \in Stamped : json_dumps(r) = line}
    IN  IF rs = {} THEN [ok |-> FALSE] ELSE [ok |-> TRUE, value |-> CHOOSE r \in rs : TRUE]

\* Lines that do not come from append_report: a blank line, and a record cut short.
ForeignLines == {"", "  ", "{\"fingerprint\": \"a1b2\", \"risk"}

\* report = dict(report); report["ts"] = int(time.time())
stamp(report, t) == [fingerprint |-> report.fingerprint, risk_score |-> report.risk_score, ts |-> t]

\* open(REPORTS_PATH, "a").write(line + "\n")
write_line_m(f, line) == <<line>>

write_line(f, line) == Append(f, line)

\* The lines load_reports looks at: those with i < max_lines.
lines_read(f, max_lines) ==
    IF max_lines <= 0 THEN <<>> ELSE SubSeq(f, 1, Min(Len(f), max_lines))

keeps_line(line) == strip(line) # "" /\ json_loads(strip(line)).ok

RECURSIVE parse_lines(_)
parse_lines(ls) ==
    IF ls = <<>> THEN <<>>
    ELSE (IF keeps_line(ls[1]) THEN <<json_loads(strip(ls[1])).value>> ELSE <<>>)
         \o parse_lines(Tail(ls))

\* A log that was never written and an empty one both give [].
load_reports(f, max_lines) == parse_lines(lines_read(f, max_lines))

(***************************************************************************)
(* Inputs                                                                  *)
(***************************************************************************)

\* At most MaxPad blanks on each side of an input.
MaxPad == 1

RECURSIVE Blanks(_)
Blanks(n) == IF n = 0 THEN "" ELSE " " \o Blanks(n - 1)

Pads == {Blanks(n) : n \in 0..MaxPad}

LongTail == "/aaaaaaaaaaaaaaaaaaaaaaaaaaaaaaaaaaaaaaaaaaaaaaaaaaaaaaaaaaaaaaaaaaaaaaaaaaaaaaaaaaaaaaaaaaaaaaaa"

UrlSchemes == {"", "http://", "https://", "HTTPS://", "ftp://"}

UrlUsers == {"", "user@"}

UrlHosts ==
    {"", "192.168.0.1", "bit.ly", "example.com", "Secure-Bank-Login.account.paypal.xyz",
     "xn--80ak6aa92e.com", "[::1/login", "[::1]:8080", "a.b.c.example.org"}

UrlTails == {"", "/login", "/reset;password?next=verify&s=unlock#wallet", LongTail}

UrlStrings ==
    {l \o s \o u \o h \o t \o l : l \in Pads, s \in UrlSchemes, u \in UrlUsers,
                                   h \in UrlHosts, t \in UrlTails}
        \cup {"\t\n", "http://user@:80/", "login", "https://a.com/verification"}

UrlInputs == {None} \cup {Some(s) : s \in UrlStrings}

TextLinks ==
    {"", "http://bit.ly/x1", "https://example.com/a", "www.tinyurl.com", "HTTPS://T.CO/z",
     "goo.gl/abc"}

TextAsks == {"", "inserisci la Password", "codice OTP", "il tuo iban"}

TextThreats ==
    {"", "URGENTE: account bloccato", "verifica subito se non vuoi la sanzione",
     "ultimo avviso, aggiorna i dati"}

TextStrings ==
    {l \o k \o " " \o a \o " " \o t \o l : l \in Pads, k \in TextLinks, a \in TextAsks,
                                           t \in TextThreats}
        \cup {"", "\t\n", "ciao", "vedi http://a.it e www.b.it\thttps://bit.ly/q"}

TextInputs == {None} \cup {Some(s) : s \in TextStrings}

\* At most MaxExifTags tags in an image's EXIF mapping.
MaxExifTags == 2

ImageDims == {1, 200, 300, 499, 500, 501}

ImageVars == {0, 500, 1499, 1500, 1501}

ImageInputs ==
    [decodable : {TRUE}, w : ImageDims, h : ImageDims, exif_raises : {FALSE},
     exif_len : 0..MaxExifTags, var10 : ImageVars]
        \cup [decodable : {TRUE}, w : ImageDims, h : ImageDims, exif_raises : {TRUE},
              exif_len : {0}, var10 : ImageVars]
        \cup [decodable : {FALSE}, w : {1}, h : {1}, exif_raises : {FALSE}, exif_len : {0},
              var10 : {0}]

(***************************************************************************)
(* The state machine                                                       *)
(***************************************************************************)

\* The service is idle, or has computed the answer to one request and not yet
\* sent it.
NoRet == [raised |-> FALSE]

Init ==
    /\ pc = "idle"
    /\ op = "none"
    /\ arg = None
    /\ ret = NoRet
    /\ file = <<>>
    /\ now = 0
    /\ written = <<>>

ScoreUrl ==
    \E url \in UrlInputs :
        /\ pc = "idle"
        /\ pc' = "done"
        /\ op' = "score_url"
        /\ arg' = url
        /\ ret' = score_url(url)
        /\ UNCHANGED <<file, now, written>>

ScoreText ==
    \E message \in TextInputs :
        /\ pc = "idle"
        /\ pc' = "done"
        /\ op' = "score_text"
        /\ arg' = message
        /\ ret' = score_text(message)
        /\ UNCHANGED <<file, now, written>>

AnalyzeText ==
    \E text \in TextInputs :
        /\ pc = "idle"
        /\ pc' = "done"
        /\ op' = "analyze_text"
        /\ arg' = text
        /\ ret' = analyze_text(text)
        /\ UNCHANGED <<file, now, written>>

AnalyzeImage ==
    \E data \in ImageInputs :
        /\ pc = "idle"
        /\ pc' = "done"
        /\ op' = "analyze_image_bytes"
        /\ arg' = data
        /\ ret' = analyze_image_bytes(data)
        /\ UNCHANGED <<file, now, written>>

Respond ==
    /\ pc = "done"
    /\ pc' = "idle"
    /\ op' = "none"
    /\ arg' = None
    /\ ret' = NoRet
    /\ UNCHANGED <<file, now, written>>

Next == ScoreUrl \/ ScoreText \/ AnalyzeText \/ AnalyzeImage \/ Respond

Spec == Init /\ [][Next]_vars

(***************************************************************************)
(* The report log: op, arg and ret hold the last call and what it returned; *)
(* written is the history of the records append_report wrote.               *)
(***************************************************************************)

Tick ==
    /\ now < MaxClock
    /\ now' = now + 1
    /\ UNCHANGED <<pc, op, arg, ret, file, written>>

AppendReport ==
    \E report \in Reports :
        /\ Len(file) < MaxFile
        /\ file' = write_line(file, json_dumps(stamp(report, now)))
        /\ written' = Append(written, stamp(report, now))
        /\ op' = "append_report"
        /\ arg' = report
        /\ ret' = NoRet
        /\ UNCHANGED <<pc, now>>

\* Something else leaves a whole line in the file: an empty one, a record cut short.
ForeignWrite ==
    \E line \in ForeignLines :
        /\ Len(file) < MaxFile
        /\ file' = Append(file, line)
        /\ op' = "none"
        /\ arg' = None
        /\ ret' = NoRet
        /\ UNCHANGED <<pc, now, written>>

LoadReports ==
    \E max_lines \in 0..MaxLimit :
        /\ op' = "load_reports"
        /\ arg' = max_lines
        /\ ret' = [raised |-> FALSE, rows |-> load_reports(file, max_lines)]
        /\ UNCHANGED <<pc, file, now, written>>

NextStore == Tick \/ AppendReport \/ ForeignWrite \/ LoadReports

SpecStore == Init /\ [][NextStore]_vars

(***************************************************************************)
(* Properties                                                              *)
(***************************************************************************)

Called(name) == pc = "done" /\ op = name

HighVerdict == "Sembra phishing"

\* C1: the score score_url returns is an integer in 0..100 (the sum of the fired
\* rules' weights capped at 100), on every path.
C1_UrlScoreCapped == Called("score_url") => ret.score \in 0..100

\* The URL as the caller gave it, parsed without the scheme score_url adds.
GivenUrl == urlparse(strip(OrEmpty(arg)))

\* C2: a URL whose host is a dotted-decimal IPv4 literal and whose scheme is not
\* https scores at least 45 and gets the high verdict.
C2_Ipv4NoHttpsIsHigh ==
    (/\ Called("score_url")
     /\ ~GivenUrl.raised
     /\ IPV4_RE(hostname(GivenUrl.netloc))
     /\ GivenUrl.scheme # "https")
        => ret.score >= 45 /\ ret.verdict = HighVerdict

\* The URL score_url parses cannot be parsed, or has no host.
UrlUnparsed ==
    LET p == urlparse(url_normalize(strip(OrEmpty(arg))))
    IN  p.raised \/ hostname(p.netloc) = ""

\* C3: score_url always returns; when the URL cannot be parsed or has no host the
\* result is score 100, the high verdict, exactly one non-empty reason, and the
\* input as given (blanks around it stripped), with no "https://" added, as display
\* value.
C3_UrlParseFailure ==
    Called("score_url") =>
        /\ ~ret.raised
        /\ UrlUnparsed =>
              /\ ret.score = 100
              /\ ret.verdict = HighVerdict
              /\ Len(ret.reasons) = 1
              /\ ret.reasons[1] # ""
              /\ ret.display_url = strip(OrEmpty(arg))

C3_Witness ==
    /\ Called("score_url")
    /\ urlparse(url_normalize(strip(OrEmpty(arg)))).raised
    /\ ret.score = 100
    /\ ret.display_url = "[::1/login"

\* The shortener domains analyze_text knows.
TextShortenerDomains == {"bit.ly", "tinyurl.com", "t.co"}

ShortenerAndPassword ==
    /\ arg # None
    /\ \E d \in TextShortenerDomains : contains(d, lower(arg[1]))
    /\ contains("password", lower(arg[1]))

HasSignal(code, weight) ==
    \E i \in 1..Len(ret.signals) : ret.signals[i].code = code /\ ret.signals[i].weight = weight

C5_LevelFromScore ==
    /\ Called("score_url") =>
          /\ ret.verdict = HighVerdict <=> ret.score >= 45
          /\ ret.verdict = "Sospetto" <=> (20 <= ret.score /\ ret.score < 45)
          /\ ret.verdict = "Probabilmente ok (ma verifica comunque)" <=> ret.score < 20
    /\ Called("analyze_text") =>
          /\ ret.level = "basso" <=> ret.score < 30
          /\ ret.level = "medio" <=> (30 <= ret.score /\ ret.score < 70)
          /\ ret.level = "alto" <=> ret.score >= 70
    /\ (Called("analyze_image_bytes") /\ ~ret.raised) =>
          /\ ret.level = "basso" <=> ret.score < 20
          /\ ret.level = "medio" <=> (20 <= ret.score /\ ret.score < 50)
          /\ ret.level = "alto" <=> ret.score >= 50

C5_Witness == Called("score_url") /\ ret.score = 45 /\ ret.verdict = HighVerdict

\* The message is None, empty, or whitespace only.
BlankMessage == arg = None \/ \A i \in 1..Len(arg[1]) : isspace(Char(arg[1], i))

\* C6: for a message that is None, empty or whitespace only score_text returns score
\* 0, the level "Inserisci un testo", exactly one reason and no links, with no rule
\* evaluated; for any other message it never returns that level.
C6_BlankText ==
    Called("score_text") =>
        /\ BlankMessage =>
              /\ ret.score = 0
              /\ ret.verdict = "Inserisci un testo"
              /\ Len(ret.reasons) = 1
              /\ ret.links = <<>>
              /\ ret.evaluated = 0
        /\ ~BlankMessage => ret.verdict # "Inserisci un testo"

C6_Witness ==
    /\ Called("score_text")
    /\ arg # None
    /\ Len(arg[1]) > 0
    /\ BlankMessage
    /\ ret.verdict = "Inserisci un testo"

NoExif == arg.exif_raises \/ arg.exif_len = 0

LowRes == arg.w < 500 \/ arg.h < 500

LowDetail == arg.var10 < 1500

Bit(b) == IF b THEN 1 ELSE 0

\* C7: for a decodable image the score is 10*[no EXIF] + 8*[width < 500 or height <
\* 500] + 10*[variance < 150], with one signal per fired rule in the order NO_EXIF,
\* LOW_RES, LOW_DETAIL, and the category is "deepfake_suspected" exactly when the
\* level is medio or alto, else "image_check"; no EXIF, 300x200 and variance 50 give
\* score 28, level medio, category deepfake_suspected.
C7_ImageScore ==
    (Called("analyze_image_bytes") /\ arg.decodable) =>
        /\ ~ret.raised
        /\ ret.score = 10 * Bit(NoExif) + 8 * Bit(LowRes) + 10 * Bit(LowDetail)
        /\ [i \in 1..Len(ret.signals) |-> ret.signals[i].code]
             = (IF NoExif THEN <<"NO_EXIF">> ELSE <<>>)
               \o (IF LowRes THEN <<"LOW_RES">> ELSE <<>>)
               \o (IF LowDetail THEN <<"LOW_DETAIL">> ELSE <<>>)
        /\ ret.category = "deepfake_suspected" <=> ret.level \in {"medio", "alto"}
        /\ ret.category = "image_check" <=> ret.level \notin {"medio", "alto"}
        /\ (NoExif /\ arg.w = 300 /\ arg.h = 200 /\ arg.var10 = 500) =>
              /\ ret.score = 28
              /\ ret.level = "medio"
              /\ ret.category = "deepfake_suspected"

C7_Witness ==
    /\ Called("analyze_image_bytes")
    /\ arg.decodable
    /\ NoExif
    /\ arg.w = 300
    /\ arg.h = 200
    /\ arg.var10 = 500
    /\ ret.score = 28

\* The last n lines of the log.
LastLines(f, n) == SubSeq(f, Len(f) - Min(Len(f), n) + 1, Len(f))

\* C8: load_reports(max_lines) returns the most recent entries: with more than
\* max_lines lines in the log, the records of the last max_lines lines.
C8_LoadReturnsMostRecent ==
    (op = "load_reports" /\ Len(file) > arg) => ret.rows = parse_lines(LastLines(file, arg))

\* C9: the log is append-only and keeps its order: a write adds exactly one line at
\* the end and changes no earlier line, the line append_report adds is the record
\* it was given with its timestamp; and load_reports skips blank and unparseable
\* lines without raising, so that with at most max_lines lines in the log it
\* returns every appended record exactly once, in the order of the appends.
C9_AppendOnlyInOrder ==
    /\ [](op = "load_reports" /\ Len(file) <= arg => ~ret.raised /\ ret.rows = written)
    /\ [][/\ file' # file =>
                /\ Len(file') = Len(file) + 1
                /\ SubSeq(file', 1, Len(file)) = file
          /\ AppendReport =>
                /\ Len(file') = Len(file) + 1
                /\ json_loads(file'[Len(file')]).ok
                /\ json_loads(file'[Len(file')]).value = stamp(arg', now)]_vars

C9_Witness ==
    /\ op = "load_reports"
    /\ Len(file) <= arg
    /\ Len(written) >= 2
    /\ written[1] # written[2]
    /\ Len(file) > Len(written)
    /\ ret.rows = written

\* C10: the score of a decodable image is one of 0, 8, 10, 18, 20, 28, so the level
\* "alto" is never returned and the cap at 100 never takes effect.
C10_ImageScoreRange ==
    (Called("analyze_image_bytes") /\ ~ret.raised) =>
        /\ ret.score \in {0, 8, 10, 18, 20, 28}
        /\ ret.level # "alto"
        /\ ret.score = SumWeights(ret.signals)

C10_Witness ==
    /\ Called("analyze_image_bytes")
    /\ ~ret.raised
    /\ ret.score = 28
    /\ ret.level = "medio"
    /\ arg.w = 499

====
